---- MODULE Spec2Model ----
(***************************************************************************)
(* Complaint-management REST API (routes/complaints.js, middleware/auth.js, *)
(* database setup script).  The relational store is modelled by its tables; *)
(* every request is a process that moves from one awaited pool.query to the *)
(* next, so each action is one storage statement together with the          *)
(* synchronous code that follows it up to the next await or the response.   *)
(***************************************************************************)
EXTENDS Integers, Sequences, FiniteSets, TLC

VARIABLES users, complaints, complaint_transfers, audit_logs, clock, store, req

vars == <<users, complaints, complaint_transfers, audit_logs, clock, store, req>>

(* ------------------------------ bounds --------------------------------- *)

\* rows of the domains table: ids 1..NumDomains
NumDomains == 2
\* rows the complaints table may hold (SERIAL ids 1..MaxComplaints)
MaxComplaints == 2
\* mutating requests start only while fewer write statements than this ran
MaxClock == 5
\* request slots (requests in flight at the same time)
NumProcs == 2

(* --------------------------- reference data ---------------------------- *)

Domains == 1..NumDomains

Procs == 1..NumProcs

\* a NULL column of type INTEGER or TIMESTAMP
NULL == 0

\* a NULL column of type TEXT
NULLTEXT == "NULL"

\* a property missing from the JSON body
undefined == "undefined"

\* accounts present in the users table, by id: two registered students, a
\* sub admin of domain 1 and the super admin
InitUsers ==
  << [role |-> "student",     domain_id |-> NULL, is_active |-> TRUE],
     [role |-> "student",     domain_id |-> NULL, is_active |-> TRUE],
     [role |-> "sub_admin",   domain_id |-> 1,    is_active |-> TRUE],
     [role |-> "super_admin", domain_id |-> NULL, is_active |-> TRUE] >>

UserIds == DOMAIN InitUsers

(* ------------------------------ inputs --------------------------------- *)

\* a JSON value of the body: a number, or a string holding the digits of v
Num(n) == [t |-> "number", v |-> n]

Str(n) == [t |-> "string", v |-> n]

NoValue == [t |-> "undefined", v |-> 0]

\* the Authorization header: absent, or a bearer token that jwt.verify
\* rejects (bad signature, expired), or one signed for userId
Tokens ==
  { [kind |-> k, userId |-> 0] : k \in {"missing", "invalid", "expired"} }
    \cup { [kind |-> "valid", userId |-> u] : u \in UserIds }

Ops == {"Create", "List", "Public", "Get", "UpdateStatus", "MarkSeen", "Transfer"}

MutatingOps == {"Create", "UpdateStatus", "MarkSeen", "Transfer"}

\* :id path parameters after parseInt
IdInputs == 0..MaxComplaints

CreateDomainInputs == { Num(d) : d \in 1..(NumDomains + 1) }

TransferDomainInputs ==
  { Num(d) : d \in 1..(NumDomains + 1) } \cup { Str(d) : d \in Domains }

StatusValues == {"pending", "in_progress", "resolved", "rejected"}

StatusInputs == StatusValues \cup {"closed"}

DetailsInputs == {undefined, "", "fixed"}

(* ----------------------------- middleware ------------------------------ *)

requireSuperAdmin == {"super_admin"}

\* requireSubAdmin letting students through as well
requireSubAdmin_WithStudent == {"student", "sub_admin", "super_admin"}

requireSubAdmin == {"sub_admin", "super_admin"}

requireStudent == {"student", "sub_admin", "super_admin"}

\* the roles each route lets through requireRole; List and Get carry no
\* requireRole middleware
requireRole(op) ==
  CASE op = "Create" -> requireStudent
    [] op \in {"UpdateStatus", "MarkSeen", "Transfer"} -> requireSubAdmin
    [] op = "Toggle" -> requireSuperAdmin
    [] OTHER -> {"student", "sub_admin", "super_admin"}

\* express-validator isInt(): the value, turned into a string, is an integer
isInt(x) == x.t \in {"number", "string", "bigint"}

\* the === operator between a column read from the store and a body value
StrictEq(n, x) == x.t = "number" /\ x.v = n

\* the integer the store makes of a query parameter
PgInt(x) == x.v

\* an integer above 2147483647, the largest value of an INTEGER column; it
\* is kept symbolic
Big == [t |-> "bigint", v |-> 0]

\* the parameter does not fit the INTEGER column it is bound to: the store
\* rejects the statement with error 22003
OutOfRange(x) == x.t = "bigint"

\* validationErrors without the isIn test of status
validationErrors_NoStatus(r) ==
  CASE r.op = "Create" /\ (r.title < 5 \/ r.title > 255) -> "title"
    [] r.op = "Create" /\ r.description < 10 -> "description"
    [] r.op = "Create" /\ ~isInt(r.domainId) -> "domainId"
    [] r.op = "Transfer" /\ ~isInt(r.toDomainId) -> "toDomainId"
    [] OTHER -> ""

\* the validation chain of a route: the empty string when it passes; title
\* and description stand for the lengths of the trimmed texts
validationErrors(r) ==
  CASE r.op = "Create" /\ (r.title < 5 \/ r.title > 255) -> "title"
    [] r.op = "Create" /\ r.description < 10 -> "description"
    [] r.op = "Create" /\ ~isInt(r.domainId) -> "domainId"
    [] r.op = "UpdateStatus" /\ r.status \notin StatusValues -> "status"
    [] r.op = "Transfer" /\ ~isInt(r.toDomainId) -> "toDomainId"
    [] OTHER -> ""

(* ------------------------------ requests ------------------------------- *)

NoResp == [status |-> 0, error |-> "", rows |-> <<>>]

IdleReq ==
  [pc |-> "idle", op |-> "none", token |-> [kind |-> "missing", userId |-> 0],
   user |-> NULL, id |-> 0, domainId |-> NoValue, toDomainId |-> NoValue,
   status |-> undefined, resolutionDetails |-> undefined,
   oldStatus |-> undefined, currentDomainId |-> NULL, newId |-> NULL,
   newStatus |-> FALSE, title |-> 0, description |-> 0,
   priority |-> undefined, resp |-> NoResp]

\* status and resolutionDetails of a PUT /:id body
StatusBodies ==
  { <<s, rd>> : s \in StatusInputs, rd \in DetailsInputs }

BadTokens == { tk \in Tokens : tk.kind # "valid" }

ValidTokens == { tk \in Tokens : tk.kind = "valid" }

\* the requests a client can send; a request whose token is rejected before
\* the body is read is listed once, with an empty body
Requests ==
  { [IdleReq EXCEPT !.op = o, !.token = tk] :
      o \in Ops \ {"Public"}, tk \in BadTokens }
  \cup { [IdleReq EXCEPT !.op = "Public"] }
  \cup { [IdleReq EXCEPT !.op = "Create", !.token = tk, !.domainId = d,
                         !.title = 5, !.description = 10] :
      tk \in ValidTokens, d \in CreateDomainInputs }
  \cup { [IdleReq EXCEPT !.op = "List", !.token = tk] : tk \in ValidTokens }
  \cup { [IdleReq EXCEPT !.op = o, !.token = tk, !.id = i] :
      o \in {"Get", "MarkSeen"}, tk \in ValidTokens, i \in IdInputs }
  \cup { [IdleReq EXCEPT !.op = "UpdateStatus", !.token = tk, !.id = i,
                         !.status = b[1], !.resolutionDetails = b[2]] :
      tk \in ValidTokens, i \in IdInputs, b \in StatusBodies }
  \cup { [IdleReq EXCEPT !.op = "Transfer", !.token = tk, !.id = i,
                         !.toDomainId = d] :
      tk \in ValidTokens, i \in IdInputs, d \in TransferDomainInputs }

\* :id of PUT /admin/users/:id/toggle: an account, or no account
ToggleIdInputs == 1..(Len(InitUsers) + 1)

\* the requests a client can send to PUT /admin/users/:id/toggle
ToggleRequests ==
  { [IdleReq EXCEPT !.op = "Toggle", !.token = tk] : tk \in BadTokens }
  \cup { [IdleReq EXCEPT !.op = "Toggle", !.token = tk, !.id = u] :
      tk \in ValidTokens, u \in ToggleIdInputs }

InFlight(p) == req[p].pc \notin {"idle", "done"}

\* POST / requests that have not answered yet
Creating == Cardinality({ q \in Procs : InFlight(q) /\ req[q].op = "Create" })

Respond(p, code, err, rows) ==
  req' = [req EXCEPT ![p].pc = "done",
                     ![p].resp = [status |-> code, error |-> err, rows |-> rows]]

Goto(p, label) == req' = [req EXCEPT ![p].pc = label]

\* the first awaited statement of each handler
FirstQuery(op) ==
  CASE op = "Create" -> "domainCheck"
    [] op \in {"List", "Public", "Get", "Stats"} -> "query"
    [] OTHER -> "lookup"

(* ------------------------------- state --------------------------------- *)

Init ==
  /\ users = InitUsers
  /\ complaints = <<>>
  /\ complaint_transfers = <<>>
  /\ audit_logs = <<>>
  /\ clock = 0
  /\ store = "up"
  /\ req = [p \in Procs |-> IdleReq]

db == <<users, complaints, complaint_transfers, audit_logs, clock, store>>

(* -------------------------- authenticateToken -------------------------- *)

\* Request r arrives.  GET /public has no middleware; every other route
\* runs authenticateToken up to its awaited user query.
Arrive(p, r) ==
  IF r.op = "Public"
    THEN req' = [req EXCEPT ![p] = [r EXCEPT !.pc = "query"]]
  ELSE IF r.token.kind = "missing"
    THEN req' = [req EXCEPT ![p] = [r EXCEPT !.pc = "done",
             !.resp = [NoResp EXCEPT !.status = 401,
                                     !.error = "Access token required"]]]
  ELSE IF r.token.kind # "valid"
    THEN req' = [req EXCEPT ![p] = [r EXCEPT !.pc = "done",
             !.resp = [NoResp EXCEPT !.status = 403,
                                     !.error = "Invalid or expired token"]]]
  ELSE req' = [req EXCEPT ![p] = [r EXCEPT !.pc = "auth"]]

\* a request to the complaints router arrives
Start(p) ==
  /\ req[p].pc = "idle"
  /\ \E r \in Requests :
       /\ r.op \in MutatingOps => clock < MaxClock
       /\ r.op = "Create" => Len(complaints) + Creating < MaxComplaints
       /\ Arrive(p, r)
  /\ UNCHANGED db

\* the user query of authenticateToken returns no row it accepts, with the
\* test of is_active left out
UserRejected_IgnoreActive(uid) == uid \notin DOMAIN users

\* userQuery.rows.length === 0 || !userQuery.rows[0].is_active
UserRejected(uid) == uid \notin DOMAIN users \/ ~users[uid].is_active

\* the user query of authenticateToken, then requireRole, the validation
\* chain and the parsing of :id, up to the handler's first awaited query
Authenticate(p) ==
  /\ req[p].pc = "auth"
  /\ store = "up"
  /\ LET r == req[p]
         uid == r.token.userId
     IN IF UserRejected(uid)
          THEN Respond(p, 401, "Invalid token or user inactive", <<>>)
        ELSE IF users[uid].role \notin requireRole(r.op)
          THEN req' = [req EXCEPT ![p].user = uid, ![p].pc = "done",
                   ![p].resp = [NoResp EXCEPT !.status = 403,
                                              !.error = "Insufficient permissions"]]
        ELSE IF validationErrors(r) # ""
          THEN req' = [req EXCEPT ![p].user = uid, ![p].pc = "done",
                   ![p].resp = [NoResp EXCEPT !.status = 400,
                                              !.error = validationErrors(r)]]
        ELSE IF r.op \in {"Get", "UpdateStatus", "MarkSeen", "Transfer"} /\ r.id <= 0
          THEN req' = [req EXCEPT ![p].user = uid, ![p].pc = "done",
                   ![p].resp = [NoResp EXCEPT !.status = 400,
                                              !.error = "Invalid complaint ID"]]
        ELSE IF r.op = "Toggle" /\ r.id = uid
          THEN req' = [req EXCEPT ![p].user = uid, ![p].pc = "done",
                   ![p].resp = [NoResp EXCEPT !.status = 400,
                                              !.error = "Cannot disable your own account"]]
        ELSE req' = [req EXCEPT ![p].user = uid, ![p].pc = FirstQuery(r.op)]
  /\ UNCHANGED db


\* the response has been sent and the request is over
Finish(p) ==
  /\ req[p].pc = "done"
  /\ req' = [req EXCEPT ![p] = IdleReq]
  /\ UNCHANGED db

(* ------------------------------ the store ------------------------------ *)

ComplaintIds == DOMAIN complaints

\* CURRENT_TIMESTAMP of the write statement being executed
now == clock + 1

\* NewComplaint with admin_seen defaulting to true
NewComplaint_Seen(domainId, studentId, ts) ==
  [domain_id |-> domainId, student_id |-> studentId, title |-> "title",
   status |-> "pending", resolution_details |-> NULLTEXT, resolved_at |-> NULL,
   admin_seen |-> TRUE, admin_read_at |-> NULL,
   created_at |-> ts, updated_at |-> ts]

\* the row INSERT INTO complaints makes, with the column defaults
NewComplaint(domainId, studentId, ts) ==
  [domain_id |-> domainId, student_id |-> studentId, title |-> "title",
   status |-> "pending", resolution_details |-> NULLTEXT, resolved_at |-> NULL,
   admin_seen |-> FALSE, admin_read_at |-> NULL,
   created_at |-> ts, updated_at |-> ts]

\* a row of audit_logs; old_values and new_values are flattened
AuditEntry(userId, action, resourceId, old, new) ==
  [user_id |-> userId, action |-> action, resource_id |-> resourceId,
   old_values |-> old, new_values |-> new]

NoValues == [status |-> undefined, resolutionDetails |-> undefined,
             domain_id |-> NoValue]

\* DomainExists with the emptiness test of the result left out
DomainExists_Any(d) == d \in Int

\* SELECT id FROM domains WHERE id = d returns a row
DomainExists(d) == d \in Domains

\* JOIN domains d ON c.domain_id = d.id
JoinsDomain(c) == c.domain_id \in Domains

\* JOIN users u ON c.student_id = u.id
JoinsUser(c) == c.student_id \in DOMAIN users

\* Visible with the student branch lacking its student_id condition
Visible_NoOwnerFilter(u, c) ==
  CASE users[u].role = "student" -> JoinsDomain(c)
    [] users[u].role = "sub_admin" ->
         JoinsDomain(c) /\ c.domain_id = users[u].domain_id
    [] OTHER -> JoinsDomain(c) /\ JoinsUser(c)

\* the WHERE clause of GET / and GET /:id for the role of req.user
Visible(u, c) ==
  CASE users[u].role = "student" -> JoinsDomain(c) /\ c.student_id = u
    [] users[u].role = "sub_admin" ->
         JoinsDomain(c) /\ c.domain_id = users[u].domain_id
    [] OTHER -> JoinsDomain(c) /\ JoinsUser(c)

\* InScope with the sub_admin branch lacking its domain_id condition
InScope_Unscoped(u, c) == c.domain_id \in Domains

\* the WHERE clause of the lookup of PUT /:id and PUT /:id/mark-seen
InScope(u, c) ==
  IF users[u].role = "sub_admin" THEN c.domain_id = users[u].domain_id ELSE TRUE

\* the WHERE clause of the lookup of POST /:id/transfer
TransferInScope(u, c) == JoinsDomain(c)

\* UpdateWhereId with the WHERE clause left out
UpdateWhereId_NoWhere(i, set) ==
  [j \in ComplaintIds |-> set @@ complaints[j]]

\* UPDATE complaints SET set WHERE id = i: the columns of set are assigned
\* in the row with id i, every other column and row is kept
UpdateWhereId(i, set) ==
  [j \in ComplaintIds |-> IF j = i THEN set @@ complaints[j] ELSE complaints[j]]

\* ORDER BY key DESC over the rows with the ids S (ties by id)
RECURSIVE OrderByDesc(_, _)
OrderByDesc(S, key) ==
  IF S = {} THEN <<>>
  ELSE LET i == CHOOSE x \in S :
                  \A y \in S : key[y] < key[x] \/ (key[y] = key[x] /\ y <= x)
       IN <<i>> \o OrderByDesc(S \ {i}, key)

created_at == [i \in ComplaintIds |-> complaints[i].created_at]

\* resolved_at of the rows of table cs as a sort key: a descending sort puts
\* NULL first
resolved_at(cs) ==
  [i \in DOMAIN cs |->
     IF cs[i].resolved_at = NULL THEN clock + 1 ELSE cs[i].resolved_at]

\* LIMIT 50 of GET /public
PublicLimit == 50

\* Limit with the row count ignored
Limit_All(rows, n) == rows

Limit(rows, n) == IF Len(rows) <= n THEN rows ELSE SubSeq(rows, 1, n)

\* PublicColumns selecting c.student_id as well
PublicColumns_WithStudent(cs, i) ==
  [id |-> i, title |-> cs[i].title, student_id |-> cs[i].student_id,
   resolution_details |-> cs[i].resolution_details,
   resolved_at |-> cs[i].resolved_at, domain_name |-> cs[i].domain_id]

\* the SELECT list of GET /public for row i of table cs; a domain's name
\* stands for its id
PublicColumns(cs, i) ==
  [id |-> i, title |-> cs[i].title,
   resolution_details |-> cs[i].resolution_details,
   resolved_at |-> cs[i].resolved_at, domain_name |-> cs[i].domain_id]

\* the result of the query of GET /public over the complaints table cs
PublicRows(cs) ==
  LET order == Limit(OrderByDesc({ i \in DOMAIN cs :
                         JoinsDomain(cs[i]) /\ cs[i].status = "resolved" },
                       resolved_at(cs)), PublicLimit)
  IN [k \in DOMAIN order |-> PublicColumns(cs, order[k])]

(* ---------------------------- POST /complaints ------------------------- *)

\* SELECT id FROM domains WHERE id = $1; a domainId beyond the range of
\* INTEGER is error 22003, which the catch block answers with 500
CreateDomainCheck(p) ==
  /\ req[p].pc = "domainCheck"
  /\ store = "up"
  /\ IF OutOfRange(req[p].domainId)
       THEN Respond(p, 500, "Failed to submit complaint", <<>>)
     ELSE IF ~DomainExists(PgInt(req[p].domainId))
       THEN Respond(p, 400, "Invalid domain", <<>>)
       ELSE Goto(p, "insert")
  /\ UNCHANGED db

\* the values the CHECK constraint of complaints.priority admits
Priorities == {"low", "medium", "high"}

\* const { priority = 'medium' } = req.body
PriorityOf(r) == IF r.priority = undefined THEN "medium" ELSE r.priority

\* the INSERT; priority carries a CHECK constraint (error 23514, for which
\* the catch block has no branch), domain_id and student_id are foreign keys
\* (error 23503, which the catch block answers with 400)
CreateInsert(p) ==
  /\ req[p].pc = "insert"
  /\ store = "up"
  /\ IF PriorityOf(req[p]) \notin Priorities
       THEN /\ Respond(p, 500, "Failed to submit complaint", <<>>)
            /\ UNCHANGED db
     ELSE IF PgInt(req[p].domainId) \notin Domains \/ req[p].user \notin DOMAIN users
       THEN /\ Respond(p, 400, "Invalid domain or user", <<>>)
            /\ UNCHANGED db
       ELSE /\ complaints' = Append(complaints,
                   NewComplaint(PgInt(req[p].domainId), req[p].user, now))
            /\ clock' = now
            /\ req' = [req EXCEPT ![p].pc = "audit",
                                   ![p].newId = Len(complaints) + 1]
            /\ UNCHANGED <<users, complaint_transfers, audit_logs, store>>

\* CreateAudit writing its entry over the log instead of appending it
CreateAudit_Replace(p) ==
  /\ req[p].pc = "audit" /\ req[p].op = "Create"
  /\ store = "up"
  /\ audit_logs' =
        << AuditEntry(req[p].user, "CREATE", req[p].newId, NoValues,
                      [NoValues EXCEPT !.domain_id = req[p].domainId]) >>
  /\ clock' = now
  /\ Respond(p, 201, "", <<req[p].newId>>)
  /\ UNCHANGED <<users, complaints, complaint_transfers, store>>

CreateAudit(p) ==
  /\ req[p].pc = "audit" /\ req[p].op = "Create"
  /\ store = "up"
  /\ audit_logs' = Append(audit_logs,
        AuditEntry(req[p].user, "CREATE", req[p].newId, NoValues,
                   [NoValues EXCEPT !.domain_id = req[p].domainId]))
  /\ clock' = now
  /\ Respond(p, 201, "", <<req[p].newId>>)
  /\ UNCHANGED <<users, complaints, complaint_transfers, store>>

(* ------------------- GET /complaints, /public, /:id -------------------- *)

ListQuery(p) ==
  /\ req[p].pc = "query" /\ req[p].op = "List"
  /\ store = "up"
  /\ Respond(p, 200, "",
       OrderByDesc({ i \in ComplaintIds : Visible(req[p].user, complaints[i]) },
                   created_at))
  /\ UNCHANGED db

PublicQuery(p) ==
  /\ req[p].pc = "query" /\ req[p].op = "Public"
  /\ store = "up"
  /\ Respond(p, 200, "", PublicRows(complaints))
  /\ UNCHANGED db

GetQuery(p) ==
  /\ req[p].pc = "query" /\ req[p].op = "Get"
  /\ store = "up"
  /\ LET rows == { i \in ComplaintIds :
                     i = req[p].id /\ Visible(req[p].user, complaints[i]) }
     IN IF rows = {}
          THEN Respond(p, 404, "Complaint not found", <<>>)
          ELSE Respond(p, 200, "", <<req[p].id>>)
  /\ UNCHANGED db

(* --------------------------- PUT /complaints/:id ----------------------- *)

\* the scoped SELECT of PUT /:id and the 404 when it returns no row
UpdateLookup(p) ==
  /\ req[p].pc = "lookup" /\ req[p].op = "UpdateStatus"
  /\ store = "up"
  /\ IF req[p].id \in ComplaintIds /\ InScope(req[p].user, complaints[req[p].id])
       THEN req' = [req EXCEPT ![p].pc = "update",
                               ![p].oldStatus = complaints[req[p].id].status]
       ELSE Respond(p, 404, "Complaint not found", <<>>)
  /\ UNCHANGED db

\* the truthiness of resolutionDetails in the handler's if
Truthy(x) == x # undefined /\ x # ""

\* UpdateFields stamping resolved_at on every update to resolved
UpdateFields_StampAnyResolved(status, resolutionDetails, ts) ==
  IF status = "resolved"
    THEN IF Truthy(resolutionDetails)
           THEN [status |-> status, updated_at |-> ts,
                 resolution_details |-> resolutionDetails, resolved_at |-> ts]
           ELSE [status |-> status, updated_at |-> ts, resolved_at |-> ts]
    ELSE [status |-> status, updated_at |-> ts]

\* UpdateFields clearing the resolution when the update is not a resolution
UpdateFields_ClearOnReopen(status, resolutionDetails, ts) ==
  IF Truthy(resolutionDetails) /\ status = "resolved"
    THEN [status |-> status, updated_at |-> ts,
          resolution_details |-> resolutionDetails, resolved_at |-> ts]
    ELSE [status |-> status, updated_at |-> ts,
          resolution_details |-> NULLTEXT, resolved_at |-> NULL]

\* the SET list the handler builds in updateFields, evaluated at time ts
UpdateFields(status, resolutionDetails, ts) ==
  IF Truthy(resolutionDetails) /\ status = "resolved"
    THEN [status |-> status, updated_at |-> ts,
          resolution_details |-> resolutionDetails, resolved_at |-> ts]
    ELSE [status |-> status, updated_at |-> ts]

UpdateWrite(p) ==
  /\ req[p].pc = "update" /\ req[p].op = "UpdateStatus"
  /\ store = "up"
  /\ complaints' = UpdateWhereId(req[p].id,
        UpdateFields(req[p].status, req[p].resolutionDetails, now))
  /\ clock' = now
  /\ Goto(p, "audit")
  /\ UNCHANGED <<users, complaint_transfers, audit_logs, store>>

UpdateAudit(p) ==
  /\ req[p].pc = "audit" /\ req[p].op = "UpdateStatus"
  /\ store = "up"
  /\ audit_logs' = Append(audit_logs,
        AuditEntry(req[p].user, "UPDATE", req[p].id,
                   [NoValues EXCEPT !.status = req[p].oldStatus],
                   [NoValues EXCEPT !.status = req[p].status,
                                    !.resolutionDetails = req[p].resolutionDetails]))
  /\ clock' = now
  /\ Respond(p, 200, "Complaint updated successfully", <<>>)
  /\ UNCHANGED <<users, complaints, complaint_transfers, store>>

(* ---------------------- PUT /complaints/:id/mark-seen ------------------ *)

SeenLookup(p) ==
  /\ req[p].pc = "lookup" /\ req[p].op = "MarkSeen"
  /\ store = "up"
  /\ IF req[p].id \in ComplaintIds /\ InScope(req[p].user, complaints[req[p].id])
       THEN Goto(p, "update")
       ELSE Respond(p, 404, "Complaint not found", <<>>)
  /\ UNCHANGED db

\* SeenFields without admin_read_at
SeenFields_NoReadAt(ts) == [admin_seen |-> TRUE, updated_at |-> ts]

\* SET admin_seen = true, admin_read_at and updated_at = CURRENT_TIMESTAMP
SeenFields(ts) ==
  [admin_seen |-> TRUE, admin_read_at |-> ts, updated_at |-> ts]

SeenWrite(p) ==
  /\ req[p].pc = "update" /\ req[p].op = "MarkSeen"
  /\ store = "up"
  /\ complaints' = UpdateWhereId(req[p].id, SeenFields(now))
  /\ clock' = now
  /\ Goto(p, "audit")
  /\ UNCHANGED <<users, complaint_transfers, audit_logs, store>>

SeenAudit(p) ==
  /\ req[p].pc = "audit" /\ req[p].op = "MarkSeen"
  /\ store = "up"
  /\ audit_logs' = Append(audit_logs,
        AuditEntry(req[p].user, "MARK_SEEN", req[p].id, NoValues, NoValues))
  /\ clock' = now
  /\ Respond(p, 200, "Complaint marked as seen", <<>>)
  /\ UNCHANGED <<users, complaints, complaint_transfers, store>>

(* ---------------------- POST /complaints/:id/transfer ------------------ *)

\* the SELECT of the transfer handler, the 404 and the same-domain test
TransferLookup(p) ==
  /\ req[p].pc = "lookup" /\ req[p].op = "Transfer"
  /\ store = "up"
  /\ IF ~(req[p].id \in ComplaintIds
          /\ TransferInScope(req[p].user, complaints[req[p].id]))
       THEN Respond(p, 404, "Complaint not found", <<>>)
     ELSE IF StrictEq(complaints[req[p].id].domain_id, req[p].toDomainId)
       THEN req' = [req EXCEPT ![p].pc = "done",
                 ![p].currentDomainId = complaints[req[p].id].domain_id,
                 ![p].resp = [NoResp EXCEPT !.status = 400,
                     !.error = "Cannot transfer to the same domain"]]
     ELSE req' = [req EXCEPT ![p].pc = "update",
                 ![p].currentDomainId = complaints[req[p].id].domain_id]
  /\ UNCHANGED db

\* TransferFields without domain_id
TransferFields_KeepDomain(toDomainId, ts) == [updated_at |-> ts]

\* SET domain_id = $1, updated_at = CURRENT_TIMESTAMP
TransferFields(toDomainId, ts) ==
  [domain_id |-> PgInt(toDomainId), updated_at |-> ts]

\* the UPDATE; a domain_id beyond the range of INTEGER is error 22003, for
\* which the catch block has no branch; one that is no row of domains
\* violates the foreign key (error 23503), which it answers with 400
TransferWrite(p) ==
  /\ req[p].pc = "update" /\ req[p].op = "Transfer"
  /\ store = "up"
  /\ IF OutOfRange(req[p].toDomainId)
       THEN /\ Respond(p, 500, "Failed to transfer complaint", <<>>)
            /\ UNCHANGED db
     ELSE IF PgInt(req[p].toDomainId) \notin Domains
       THEN /\ Respond(p, 400, "Invalid domain", <<>>)
            /\ UNCHANGED db
       ELSE /\ complaints' = UpdateWhereId(req[p].id,
                  TransferFields(req[p].toDomainId, now))
            /\ clock' = now
            /\ Goto(p, "insertTransfer")
            /\ UNCHANGED <<users, complaint_transfers, audit_logs, store>>

TransferInsert(p) ==
  /\ req[p].pc = "insertTransfer"
  /\ store = "up"
  /\ complaint_transfers' = Append(complaint_transfers,
        [complaint_id |-> req[p].id, from_domain_id |-> req[p].currentDomainId,
         to_domain_id |-> PgInt(req[p].toDomainId), transferred_by |-> req[p].user])
  /\ clock' = now
  /\ Goto(p, "audit")
  /\ UNCHANGED <<users, complaints, audit_logs, store>>

TransferAudit(p) ==
  /\ req[p].pc = "audit" /\ req[p].op = "Transfer"
  /\ store = "up"
  /\ audit_logs' = Append(audit_logs,
        AuditEntry(req[p].user, "TRANSFER", req[p].id,
                   [NoValues EXCEPT !.domain_id = Num(req[p].currentDomainId)],
                   [NoValues EXCEPT !.domain_id = req[p].toDomainId]))
  /\ clock' = now
  /\ Respond(p, 200, "Complaint transferred successfully", <<>>)
  /\ UNCHANGED <<users, complaints, complaint_transfers, store>>

(* ---------------------- PUT /admin/users/:id/toggle -------------------- *)

\* a request to toggle an account arrives
ToggleStart(p) ==
  /\ req[p].pc = "idle"
  /\ clock < MaxClock
  /\ \E r \in ToggleRequests : Arrive(p, r)
  /\ UNCHANGED db

\* SELECT is_active FROM users WHERE id = $1
ToggleLookup(p) ==
  /\ req[p].pc = "lookup" /\ req[p].op = "Toggle"
  /\ store = "up"
  /\ IF req[p].id \notin DOMAIN users
       THEN Respond(p, 404, "User not found", <<>>)
       ELSE req' = [req EXCEPT ![p].pc = "update",
                               ![p].newStatus = ~users[req[p].id].is_active]
  /\ UNCHANGED db

\* UPDATE users SET is_active = newStatus WHERE id = $2
ToggleWrite(p) ==
  /\ req[p].pc = "update" /\ req[p].op = "Toggle"
  /\ store = "up"
  /\ users' = [users EXCEPT ![req[p].id].is_active = req[p].newStatus]
  /\ clock' = now
  /\ Goto(p, "audit")
  /\ UNCHANGED <<complaints, complaint_transfers, audit_logs, store>>

ToggleAudit(p) ==
  /\ req[p].pc = "audit" /\ req[p].op = "Toggle"
  /\ store = "up"
  /\ audit_logs' = Append(audit_logs,
        AuditEntry(req[p].user,
                   IF req[p].newStatus THEN "ENABLE_USER" ELSE "DISABLE_USER",
                   req[p].id, NoValues, NoValues))
  /\ clock' = now
  /\ Respond(p, 200, "User toggled successfully", <<>>)
  /\ UNCHANGED <<users, complaints, complaint_transfers, store>>

(* --------------------------- storage failures -------------------------- *)

\* error.code of a rejected pool.query: the connection is refused, or the
\* server ends the session (57P01)
ErrorCodes == {"ECONNREFUSED", "57P01"}

ConnectionCodes == {"ECONNREFUSED", "ETIMEDOUT"}

\* the status the catch block of each handler answers for error.code
CatchStatus(op, code) ==
  IF op \in {"Create", "Toggle"} THEN 500
  ELSE IF code \in ConnectionCodes THEN 503
  ELSE 500

\* the awaited pool.query of request p rejects: the statement has no effect
\* and control passes to the enclosing catch block
QueryFails(p) ==
  /\ store # "up"
  /\ InFlight(p)
  /\ IF req[p].pc = "auth"
       THEN Respond(p, 403, "Invalid or expired token", <<>>)
       ELSE Respond(p, CatchStatus(req[p].op, store), store, <<>>)
  /\ UNCHANGED db

\* the store becomes unreachable: from now on every query rejects with code
Outage ==
  /\ store = "up"
  /\ store' \in ErrorCodes
  /\ UNCHANGED <<users, complaints, complaint_transfers, audit_logs, clock, req>>

(* ---------------------------- specifications --------------------------- *)

Step(p) ==
  \/ Start(p)
  \/ Finish(p)
  \/ Authenticate(p)
  \/ CreateDomainCheck(p)
  \/ CreateInsert(p)
  \/ CreateAudit(p)
  \/ ListQuery(p)
  \/ PublicQuery(p)
  \/ GetQuery(p)
  \/ UpdateLookup(p)
  \/ UpdateWrite(p)
  \/ UpdateAudit(p)
  \/ SeenLookup(p)
  \/ SeenWrite(p)
  \/ SeenAudit(p)
  \/ TransferLookup(p)
  \/ TransferWrite(p)
  \/ TransferInsert(p)
  \/ TransferAudit(p)

\* requests served one after the other by a store that answers every query
Next == Step(1)

Spec == Init /\ [][Next]_vars

\* requests served one after the other by a store whose queries may fail
FailNext == Step(1) \/ QueryFails(1) \/ Outage

FailSpec == Init /\ [][FailNext]_vars

\* rows of a complaints table that GET /public cannot return in full
PublicN == PublicLimit + 1

\* the details sent when complaint i of a busy store was resolved
BusyDetails(i, d) == IF i = 1 THEN "fixed" ELSE d

\* the complaints table after student 1 filed PublicN complaints in domain 1
\* and the sub admin of domain 1 then set complaints 1..k to resolved, one
\* after the other: complaint 1 with details, the others with the body d
BusyComplaints(k, d) ==
  [i \in 1..PublicN |->
     IF i <= k
       THEN UpdateFields("resolved", BusyDetails(i, d), 2 * PublicN + 2 * i - 1)
              @@ NewComplaint(1, 1, 2 * i - 1)
       ELSE NewComplaint(1, 1, 2 * i - 1)]

\* the audit log those requests wrote
BusyAudit(k, d) ==
  [j \in 1..(PublicN + k) |->
     IF j <= PublicN
       THEN AuditEntry(1, "CREATE", j, NoValues,
                       [NoValues EXCEPT !.domain_id = Num(1)])
       ELSE AuditEntry(3, "UPDATE", j - PublicN,
                       [NoValues EXCEPT !.status = "pending"],
                       [NoValues EXCEPT !.status = "resolved",
                          !.resolutionDetails = BusyDetails(j - PublicN, d)])]

\* the store right after construction, or after the requests above
PublicInit ==
  \/ Init
  \/ \E k \in 1..PublicN, d \in DetailsInputs :
       /\ users = InitUsers
       /\ complaints = BusyComplaints(k, d)
       /\ complaint_transfers = <<>>
       /\ audit_logs = BusyAudit(k, d)
       /\ clock = 2 * PublicN + 2 * k
       /\ store = "up"
       /\ req = [p \in Procs |-> IdleReq]

\* requests served one after the other, from a new store or a busy one
PublicSpec == PublicInit /\ [][Next]_vars

(* ------------------------- bodies of POST / --------------------------- *)

\* lengths of the trimmed title and description around the limits of isLength
TitleLengths == {4, 5, 255, 256}

DescriptionLengths == {9, 10}

PriorityInputs == {undefined, "low", "medium", "high", "urgent"}

\* a body value that is no integer
NotAnInt == [t |-> "text", v |-> 0]

CreateRequests ==
  { [IdleReq EXCEPT !.op = "Create", !.token = tk, !.title = t,
                    !.description = d, !.domainId = dom, !.priority = pr] :
      tk \in ValidTokens, t \in TitleLengths, d \in DescriptionLengths,
      dom \in CreateDomainInputs \cup {NotAnInt}, pr \in PriorityInputs }

\* a POST / with any of these bodies arrives
CreateStart(p) ==
  /\ req[p].pc = "idle"
  /\ clock < MaxClock
  /\ Len(complaints) + Creating < MaxComplaints
  /\ \E r \in CreateRequests : Arrive(p, r)
  /\ UNCHANGED db

CreateNext ==
  \/ CreateStart(1)
  \/ Authenticate(1)
  \/ CreateDomainCheck(1)
  \/ CreateInsert(1)
  \/ CreateAudit(1)
  \/ Finish(1)

\* POST / requests served one after the other
CreateSpec == Init /\ [][CreateNext]_vars

(* --------------------------- large domain ids ------------------------- *)

\* POST / and POST /:id/transfer requests whose domain id is an integer
\* too large for the column
RangeRequests ==
  { [IdleReq EXCEPT !.op = "Create", !.token = tk, !.domainId = Big,
                    !.title = 5, !.description = 10] : tk \in ValidTokens }
  \cup { [IdleReq EXCEPT !.op = "Transfer", !.token = tk, !.id = i,
                         !.toDomainId = Big] :
      tk \in ValidTokens, i \in IdInputs }

RangeStart(p) ==
  /\ req[p].pc = "idle"
  /\ clock < MaxClock
  /\ \E r \in RangeRequests : Arrive(p, r)
  /\ UNCHANGED db

RangeNext ==
  \/ Step(1)
  \/ RangeStart(1)

\* the requests of Spec and those of RangeRequests, one after the other
RangeSpec == Init /\ [][RangeNext]_vars

(* ---------------------------- GET /users/stats ------------------------ *)

\* StatsWhere without the WHERE clauses of the student and sub_admin queries
StatsWhere_All(u, c) == TRUE

\* the WHERE clause of the statistics query chosen by req.user.role
StatsWhere(u, c) ==
  CASE users[u].role = "student" -> c.student_id = u
    [] users[u].role = "sub_admin" -> c.domain_id = users[u].domain_id
    [] OTHER -> TRUE

\* COUNT(...) over the rows ids: a bigint, which the driver returns as a
\* string of digits
Count(ids) == Str(Cardinality(ids))

\* statsQuery.rows[0] after convertKeysToCamelCase
StatsRow(u) ==
  LET rows == { i \in ComplaintIds : StatsWhere(u, complaints[i]) }
      with(s) == { i \in rows : complaints[i].status = s }
  IN [total |-> Count(rows),
      pending |-> Count(with("pending")),
      inProgress |-> Count(with("in_progress")),
      resolved |-> Count(with("resolved")),
      rejected |-> Count(with("rejected"))]

StatsQuery(p) ==
  /\ req[p].pc = "query" /\ req[p].op = "Stats"
  /\ store = "up"
  /\ Respond(p, 200, "", <<StatsRow(req[p].user)>>)
  /\ UNCHANGED db

StatsRequests == { [IdleReq EXCEPT !.op = "Stats", !.token = tk] : tk \in Tokens }

StatsStart(p) ==
  /\ req[p].pc = "idle"
  /\ \E r \in StatsRequests : Arrive(p, r)
  /\ UNCHANGED db

StatsNext ==
  \/ Step(1)
  \/ StatsStart(1)
  \/ StatsQuery(1)

\* the requests of Spec and GET /users/stats, one after the other
StatsSpec == Init /\ [][StatsNext]_vars

(* ------------------------ concurrent requests ------------------------- *)

\* the users table after the super admin created a second super admin
\* through POST /admin/users (id 5)
ConcUsers ==
  Append(InitUsers,
         [role |-> "super_admin", domain_id |-> NULL, is_active |-> TRUE])

\* bodies of the PUT /:id requests that race
ConcBodies ==
  { <<"resolved", "fixed">>, <<"resolved", "replaced">>, <<"pending", undefined>> }

\* requests in flight at the same time: status updates and a mark-seen of
\* complaint 1 by the sub admin of domain 1 and the super admin, transfers
\* of complaint 1 out of domain 1 by the super admin, and the two super
\* admins toggling each other
ConcRequests ==
  { [IdleReq EXCEPT !.op = "UpdateStatus", !.id = 1,
                    !.token = [kind |-> "valid", userId |-> u],
                    !.status = b[1], !.resolutionDetails = b[2]] :
      u \in {3, 4}, b \in ConcBodies }
  \cup { [IdleReq EXCEPT !.op = "MarkSeen", !.id = 1,
                         !.token = [kind |-> "valid", userId |-> 3]] }
  \cup { [IdleReq EXCEPT !.op = "Transfer", !.id = 1,
                         !.token = [kind |-> "valid", userId |-> 4],
                         !.toDomainId = Num(d)] : d \in Domains \ {1} }
  \cup { [IdleReq EXCEPT !.op = "Toggle", !.id = 9 - u,
                         !.token = [kind |-> "valid", userId |-> u]] :
      u \in {4, 5} }

\* the store after student 1 filed complaint 1 in domain 1
ConcInit ==
  /\ users = ConcUsers
  /\ complaints = << NewComplaint(1, 1, 1) >>
  /\ complaint_transfers = <<>>
  /\ audit_logs = << AuditEntry(1, "CREATE", 1, NoValues,
                                [NoValues EXCEPT !.domain_id = Num(1)]) >>
  /\ clock = 2
  /\ store = "up"
  /\ req = [p \in Procs |-> IdleReq]

\* one of the racing requests arrives in slot p
ConcStart(p) ==
  /\ req[p].pc = "idle"
  /\ \E r \in ConcRequests : Arrive(p, r)
  /\ UNCHANGED db

ConcStep(p) ==
  \/ ConcStart(p)
  \/ Authenticate(p)
  \/ UpdateLookup(p)
  \/ UpdateWrite(p)
  \/ UpdateAudit(p)
  \/ SeenLookup(p)
  \/ SeenWrite(p)
  \/ SeenAudit(p)
  \/ TransferLookup(p)
  \/ TransferWrite(p)
  \/ TransferInsert(p)
  \/ TransferAudit(p)
  \/ ToggleLookup(p)
  \/ ToggleWrite(p)
  \/ ToggleAudit(p)

\* every slot serves one request; the statements of the requests interleave
ConcNext == \E p \in Procs : ConcStep(p)

ConcSpec == ConcInit /\ [][ConcNext]_vars

\* requests to the complaints router and to the toggle route of the admin
\* router, served one after the other
AdminNext ==
  \/ Step(1)
  \/ ToggleStart(1)
  \/ ToggleLookup(1)
  \/ ToggleWrite(1)
  \/ ToggleAudit(1)

AdminSpec == Init /\ [][AdminNext]_vars

(* ------------------------------ properties ----------------------------- *)

Done(p) == req[p].pc = "done"

Range(f) == { f[k] : k \in DOMAIN f }

\* request p passed authenticateToken for a user with role r
ActorIs(p, r) == req[p].user # NULL /\ users[req[p].user].role = r

Quiescent == \A p \in Procs : ~InFlight(p)

AuditOf(action, i) ==
  { k \in DOMAIN audit_logs :
      audit_logs[k].action = action /\ audit_logs[k].resource_id = i }

\* C1: GET /complaints by a student S answers 200 with exactly the
\* complaints whose student_id is S: all of them and none of another student
C1_StudentListExact ==
  \A p \in Procs :
    (Done(p) /\ req[p].op = "List" /\ ActorIs(p, "student"))
      => /\ req[p].resp.status = 200
         /\ Range(req[p].resp.rows)
              = { i \in ComplaintIds : complaints[i].student_id = req[p].user }

\* a student's list is answered with the student's own complaint while a
\* complaint of somebody else exists and a transfer has taken place
C1_Witness ==
  \E p \in Procs :
    /\ Done(p) /\ req[p].op = "List" /\ ActorIs(p, "student")
    /\ req[p].resp.rows # <<>>
    /\ \E i \in ComplaintIds : complaints[i].student_id # req[p].user
    /\ complaint_transfers # <<>>

C2_State ==
  \A p \in Procs :
    (Done(p) /\ ActorIs(p, "sub_admin"))
      => /\ req[p].op = "List" => req[p].resp.status = 200
         /\ req[p].op \in {"List", "Get"}
              => \A i \in Range(req[p].resp.rows) :
                    complaints[i].domain_id = users[req[p].user].domain_id
         /\ ( /\ req[p].op \in {"Get", "UpdateStatus"}
              /\ validationErrors(req[p]) = ""
              /\ req[p].id \in ComplaintIds
              /\ complaints[req[p].id].domain_id # users[req[p].user].domain_id )
              => req[p].resp.status = 404

C2_Step ==
  \A p \in Procs :
    ( /\ ActorIs(p, "sub_admin")
      /\ req[p].op \in {"Get", "UpdateStatus"}
      /\ req[p].id \in ComplaintIds
      /\ complaints[req[p].id].domain_id # users[req[p].user].domain_id )
      => complaints' = complaints

\* C2: what GET /complaints and GET /complaints/:id return to a sub_admin of
\* domain D are complaints whose domain_id is D now; a well-formed GET or PUT
\* /complaints/:id by that sub_admin on a complaint of another domain answers
\* 404 and no step of it changes the complaints table
C2_SubAdminScope == []C2_State /\ [][C2_Step]_vars

\* a sub_admin's GET of a complaint that was transferred out of the
\* sub_admin's domain has been answered 404
C2_Witness ==
  \E p \in Procs :
    /\ Done(p) /\ req[p].op = "Get" /\ ActorIs(p, "sub_admin")
    /\ req[p].resp.status = 404
    /\ req[p].id \in ComplaintIds
    /\ \E k \in DOMAIN complaint_transfers :
         /\ complaint_transfers[k].complaint_id = req[p].id
         /\ complaint_transfers[k].from_domain_id = users[req[p].user].domain_id
         /\ complaints[req[p].id].domain_id # users[req[p].user].domain_id

\* C3: POST /complaints by a sub_admin or a super_admin answers 403, and the
\* student_id of every complaint is a user whose role is student
C3_CreateOnlyStudent ==
  /\ \A i \in ComplaintIds : users[complaints[i].student_id].role = "student"
  /\ \A p \in Procs :
       (Done(p) /\ req[p].op = "Create"
          /\ (ActorIs(p, "sub_admin") \/ ActorIs(p, "super_admin")))
         => req[p].resp.status = 403

\* C4: a transfer requested by a sub_admin succeeds only on a complaint
\* whose domain_id, as the handler read it, is the sub_admin's domain_id
C4_TransferDomainScoped ==
  \A p \in Procs :
    (Done(p) /\ req[p].op = "Transfer" /\ ActorIs(p, "sub_admin")
       /\ req[p].resp.status = 200)
      => req[p].currentDomainId = users[req[p].user].domain_id

\* C5 as stated: resolved_at is set exactly when the status is resolved and
\* resolution details were stored with it, so never while the status is
\* pending, in_progress or rejected
C5_ResolvedAtIffResolved ==
  \A i \in ComplaintIds :
    complaints[i].resolved_at # NULL
      <=> ( /\ complaints[i].status = "resolved"
            /\ complaints[i].resolution_details \notin {NULLTEXT, ""} )

C5_State ==
  \A i \in ComplaintIds :
    /\ complaints[i].resolved_at # NULL
         <=> complaints[i].resolution_details # NULLTEXT
    /\ complaints[i].resolution_details # ""

\* the UPDATE of a PUT /:id on complaint i to resolved with non-empty details
ResolvingWrite(p, i) ==
  /\ req[p].pc = "update" /\ req'[p].pc = "audit"
  /\ req[p].op = "UpdateStatus" /\ req[p].id = i
  /\ req[p].status = "resolved" /\ Truthy(req[p].resolutionDetails)

C5_Step ==
  /\ \A i \in (DOMAIN complaints') \ ComplaintIds :
       complaints'[i].resolved_at = NULL
  /\ \A i \in ComplaintIds :
       IF \E p \in Procs : ResolvingWrite(p, i)
         THEN /\ complaints'[i].status = "resolved"
              /\ complaints'[i].resolved_at = clock'
              /\ complaints'[i].resolved_at # NULL
         ELSE complaints'[i].resolved_at = complaints[i].resolved_at

\* C5 amended: resolved_at is NULL in a new complaint, is written (together
\* with non-empty resolution details) by exactly the updates to resolved that
\* carry non-empty details, and is kept by every other step, later status
\* changes included
C5_ResolvedAtSetByResolving == []C5_State /\ [][C5_Step]_vars

\* a complaint that was resolved with details and then moved to another
\* status still carries its resolved_at
C5_Witness ==
  \E i \in ComplaintIds :
    /\ complaints[i].status \in {"pending", "in_progress", "rejected"}
    /\ complaints[i].resolved_at # NULL
    /\ complaints[i].resolution_details = "fixed"

\* C6: when no request is in flight, every complaint has exactly one CREATE
\* entry, every transfer record one TRANSFER entry, every complaint written
\* after its creation an entry of the operation that wrote it, and every
\* entry tells of a mutation that is in the tables
C6_AuditAtomic ==
  Quiescent =>
    /\ \A i \in ComplaintIds :
         /\ Cardinality(AuditOf("CREATE", i)) = 1
         /\ complaints[i].status # "pending" => AuditOf("UPDATE", i) # {}
         /\ complaints[i].admin_seen => AuditOf("MARK_SEEN", i) # {}
         /\ Cardinality(AuditOf("TRANSFER", i))
              = Cardinality({ k \in DOMAIN complaint_transfers :
                                complaint_transfers[k].complaint_id = i })
         /\ complaints[i].updated_at # complaints[i].created_at
              => AuditOf("UPDATE", i) \cup AuditOf("MARK_SEEN", i)
                   \cup AuditOf("TRANSFER", i) # {}
    /\ \A k \in DOMAIN audit_logs : audit_logs[k].resource_id \in ComplaintIds
    /\ \A k \in DOMAIN complaint_transfers :
         complaint_transfers[k].complaint_id \in ComplaintIds

\* C7: a transfer whose toDomainId denotes the domain the handler read for
\* the complaint answers 400 "Cannot transfer to the same domain", and no
\* transfer record leads from a domain to itself
C7_SameDomainRejected ==
  /\ \A p \in Procs :
       ( /\ Done(p) /\ req[p].op = "Transfer"
         /\ isInt(req[p].toDomainId)
         /\ req[p].currentDomainId # NULL
         /\ PgInt(req[p].toDomainId) = req[p].currentDomainId )
         => /\ req[p].resp.status = 400
            /\ req[p].resp.error = "Cannot transfer to the same domain"
  /\ \A k \in DOMAIN complaint_transfers :
       complaint_transfers[k].from_domain_id # complaint_transfers[k].to_domain_id

C8_State ==
  \A p \in Procs :
    ( /\ Done(p) /\ req[p].op = "Create" /\ req[p].user # NULL
      /\ isInt(req[p].domainId)
      /\ PgInt(req[p].domainId) \notin Domains )
      => /\ req[p].resp.status = 400
         /\ req[p].resp.error = "Invalid domain"

C8_Step ==
  \A p \in Procs :
    ( /\ req[p].op = "Create" /\ req[p].pc # "idle"
      /\ PgInt(req[p].domainId) \notin Domains )
      => /\ complaints' = complaints
         /\ audit_logs' = audit_logs

\* C8: POST /complaints with a domainId that is no row of domains answers
\* 400 "Invalid domain", and no step of the request writes to complaints or
\* to audit_logs
C8_InvalidDomainRejected == []C8_State /\ [][C8_Step]_vars

\* a POST /complaints for a domain that does not exist has been answered
\* while the tables hold earlier complaints
C8_Witness ==
  \E p \in Procs :
    /\ Done(p) /\ req[p].op = "Create" /\ req[p].user # NULL
    /\ PgInt(req[p].domainId) \notin Domains
    /\ req[p].resp.status = 400
    /\ complaints # <<>>

\* the UPDATE of a POST /:id/transfer on complaint i
TransferringWrite(p, i) ==
  /\ req[p].pc = "update" /\ req'[p].pc = "insertTransfer"
  /\ req[p].op = "Transfer" /\ req[p].id = i

C9_Step ==
  \A i \in ComplaintIds :
    /\ i \in DOMAIN complaints'
    /\ complaints'[i].student_id = complaints[i].student_id
    /\ complaints'[i].domain_id # complaints[i].domain_id
         => \E p \in Procs :
              /\ TransferringWrite(p, i)
              /\ complaints'[i].domain_id = PgInt(req[p].toDomainId)

\* a transfer that has written domain_id goes on to answer 200
C9_State ==
  \A p \in Procs :
    (req[p].op = "Transfer" /\ Done(p) /\ req[p].resp.status # 200)
      => \/ req[p].id \notin ComplaintIds
         \/ req[p].currentDomainId = NULL
         \/ complaints[req[p].id].domain_id = req[p].currentDomainId

\* C9: no step changes the student_id of a complaint, and a step changes the
\* domain_id of a complaint only when it is the UPDATE of a transfer of that
\* complaint, which sets it to the requested domain and goes on to answer
\* 200; the steps of PUT /:id and PUT /:id/mark-seen change neither
C9_OwnerAndDomainFrame == []C9_State /\ [][C9_Step]_vars

\* a complaint that an update and a transfer have both written: its status
\* is no longer pending and its domain is the one of its transfer record
C9_Witness ==
  \E i \in ComplaintIds :
    /\ complaints[i].status # "pending"
    /\ \E k \in DOMAIN complaint_transfers :
         /\ complaint_transfers[k].complaint_id = i
         /\ complaint_transfers[k].from_domain_id # complaint_transfers[k].to_domain_id
         /\ complaints[i].domain_id = complaint_transfers[k].to_domain_id
    /\ Quiescent

\* C10: a request to an authenticated route whose credential is missing,
\* invalid or expired is answered 401
C10_BadCredential401 ==
  \A p \in Procs :
    (Done(p) /\ req[p].op # "Public" /\ req[p].token.kind # "valid")
      => req[p].resp.status = 401

\* request p carries a token that jwt.verify accepts, signed for an account
\* that is disabled in the current state
TokenOfDisabled(p) ==
  /\ req[p].op # "Public"
  /\ req[p].token.kind = "valid"
  /\ ~users[req[p].token.userId].is_active

C11_State ==
  \A p \in Procs :
    /\ (Done(p) /\ TokenOfDisabled(p))
         => (req[p].resp.status = 401 /\ req[p].user = NULL)
    /\ (Done(p) /\ req[p].op # "Public" /\ req[p].token.kind = "valid"
          /\ req[p].resp.status = 401) => TokenOfDisabled(p)
    /\ (InFlight(p) /\ req[p].pc # "auth") => ~TokenOfDisabled(p)

C11_Step ==
  (\E p \in Procs : req[p].pc # "idle" /\ TokenOfDisabled(p))
    => UNCHANGED <<users, complaints, complaint_transfers, audit_logs>>

\* C11: while an account is disabled, every request authenticated with a
\* token of that account is answered 401 before any handler runs and changes
\* no complaint, transfer or audit state; a token of an enabled account is
\* never answered 401
C11_DisabledUserRejected == []C11_State /\ [][C11_Step]_vars

\* a mutating request with the token of an account the super admin disabled
\* has been answered 401
C11_Witness ==
  /\ Done(1) /\ req[1].op \in MutatingOps /\ TokenOfDisabled(1)
  /\ req[1].resp.status = 401
  /\ AuditOf("DISABLE_USER", req[1].token.userId) # {}

AdminOnlyOps == {"UpdateStatus", "MarkSeen", "Transfer"}

\* request p is a sub-admin operation sent with the token of a student
ByStudent(p) ==
  /\ req[p].op \in AdminOnlyOps
  /\ req[p].token.kind = "valid"
  /\ users[req[p].token.userId].role = "student"
  /\ users[req[p].token.userId].is_active

C12_State ==
  \A p \in Procs :
    /\ (Done(p) /\ ByStudent(p))
         => /\ req[p].resp.status = 403
            /\ req[p].resp.error = "Insufficient permissions"
    /\ (InFlight(p) /\ ByStudent(p)) => req[p].pc = "auth"

C12_Step ==
  (\E p \in Procs : req[p].pc # "idle" /\ ByStudent(p)) => UNCHANGED db

\* C12: UpdateStatus, MarkSeen and Transfer sent by a student are answered
\* 403 (never 404 or 400) for every id, whether a complaint has it or not,
\* before any query of the handler runs, and no table changes
C12_StudentForbidden == []C12_State /\ [][C12_Step]_vars

\* a student has been answered 403 on a complaint of their own
C12_Witness ==
  /\ Done(1) /\ ByStudent(1) /\ req[1].resp.status = 403
  /\ req[1].id \in ComplaintIds
  /\ complaints[req[1].id].student_id = req[1].token.userId

\* the complaints table with the owner of each complaint replaced by g
Reowned(g) ==
  [i \in ComplaintIds |-> [complaints[i] EXCEPT !.student_id = g[i]]]

PublicListed(p) == Done(p) /\ req[p].op = "Public"

OnlyResolved(rows) ==
  \A k \in DOMAIN rows :
    /\ rows[k].id \in ComplaintIds
    /\ complaints[rows[k].id].status = "resolved"

OwnerBlind(rows) ==
  \A g \in [ComplaintIds -> UserIds] : PublicRows(Reowned(g)) = rows

\* C13: GET /public answers only resolved complaints, each row holding
\* exactly title, resolution details, resolved timestamp and domain name, and
\* the answer is the same whichever student owns each complaint
C13_PublicRedacted ==
  \A p \in Procs :
    PublicListed(p) =>
      /\ req[p].resp.status = 200
      /\ OnlyResolved(req[p].resp.rows)
      /\ \A k \in DOMAIN req[p].resp.rows :
           DOMAIN req[p].resp.rows[k] =
             {"title", "resolution_details", "resolved_at", "domain_name"}
      /\ OwnerBlind(req[p].resp.rows)

\* C13 with the complaint id among the columns: GET /public answers only
\* resolved complaints, each row holding exactly id, title, resolution
\* details, resolved timestamp and domain name, whichever student owns them
C13_PublicRedactedWithId ==
  \A p \in Procs :
    PublicListed(p) =>
      /\ req[p].resp.status = 200
      /\ OnlyResolved(req[p].resp.rows)
      /\ \A k \in DOMAIN req[p].resp.rows :
           DOMAIN req[p].resp.rows[k] =
             {"id", "title", "resolution_details", "resolved_at", "domain_name"}
      /\ OwnerBlind(req[p].resp.rows)

\* the listing holds the resolved complaint of one student and leaves out
\* the unresolved complaint of the other
C13_Witness ==
  /\ PublicListed(1) /\ Len(req[1].resp.rows) = 1
  /\ \E i, j \in ComplaintIds :
       /\ complaints[i].status = "resolved" /\ complaints[j].status # "resolved"
       /\ complaints[i].student_id # complaints[j].student_id
       /\ users[complaints[i].student_id].role = "student"

\* complaint i was set to resolved with details and has not left that status
ResolvedWithDetails(i) ==
  /\ complaints[i].status = "resolved"
  /\ complaints[i].resolved_at # NULL
  /\ JoinsDomain(complaints[i])

ListedIds(p) == { req[p].resp.rows[k].id : k \in DOMAIN req[p].resp.rows }

\* C14: once a complaint has been set to resolved with details, every public
\* listing answered while it stays resolved includes it, whatever other
\* resolved complaints exist
C14_ResolvedAlwaysListed ==
  \A p \in Procs :
    PublicListed(p) =>
      \A i \in ComplaintIds : ResolvedWithDetails(i) => i \in ListedIds(p)

\* the resolved complaints GET /public sorts before complaint i for sure
\* (resolved_at NULL or later), and those it may sort before it
SortedBefore(i) ==
  { j \in ComplaintIds \ {i} :
      /\ complaints[j].status = "resolved" /\ JoinsDomain(complaints[j])
      /\ \/ complaints[j].resolved_at = NULL
         \/ complaints[j].resolved_at > complaints[i].resolved_at }

MaySortBefore(i) ==
  { j \in ComplaintIds \ {i} :
      /\ complaints[j].status = "resolved" /\ JoinsDomain(complaints[j])
      /\ \/ complaints[j].resolved_at = NULL
         \/ complaints[j].resolved_at >= complaints[i].resolved_at }

C14_State ==
  \A p \in Procs :
    PublicListed(p) =>
      /\ Len(req[p].resp.rows) <= PublicLimit
      /\ \A i \in ComplaintIds :
           ResolvedWithDetails(i) =>
             /\ Cardinality(MaySortBefore(i)) < PublicLimit => i \in ListedIds(p)
             /\ Cardinality(SortedBefore(i)) >= PublicLimit => i \notin ListedIds(p)

C14_Step ==
  \A p \in Procs, i \in ComplaintIds :
    ResolvingWrite(p, i)
      => /\ complaints'[i].status = "resolved"
         /\ complaints'[i].resolved_at = now

\* C14 with the limit of the listing: UpdateStatus(id, resolved, details)
\* leaves the complaint resolved with resolvedAt set, and a public listing
\* includes it while it stays resolved and fewer than PublicLimit resolved
\* complaints sort before it (resolvedAt missing or later); the listing
\* leaves it out once PublicLimit resolved complaints sort before it
C14_ResolvedListedWithinLimit == []C14_State /\ [][C14_Step]_vars

\* a listing that includes complaint 1 of a busy store together with other
\* resolved complaints
C14_Witness ==
  /\ PublicListed(1) /\ Len(complaints) = PublicN
  /\ ResolvedWithDetails(1) /\ 1 \in ListedIds(1)
  /\ Len(req[1].resp.rows) = PublicLimit

\* the UPDATE of a PUT /:id/mark-seen on complaint i
SeenWriteOn(p, i) ==
  /\ req[p].pc = "update" /\ req'[p].pc = "audit"
  /\ req[p].op = "MarkSeen" /\ req[p].id = i

\* request p is a MarkSeen that has been answered 200
SeenDone(p) == Done(p) /\ req[p].op = "MarkSeen" /\ req[p].resp.status = 200

C15_State ==
  \A p \in Procs :
    SeenDone(p) =>
      /\ complaints[req[p].id].admin_seen
      /\ complaints[req[p].id].admin_read_at = clock - 1

C15_Step ==
  \A i \in ComplaintIds :
    /\ complaints'[i].admin_read_at >= complaints[i].admin_read_at
    /\ complaints[i].admin_seen => complaints'[i].admin_seen
    /\ \A p \in Procs :
         SeenWriteOn(p, i) => /\ complaints'[i].admin_seen
                              /\ complaints'[i].admin_read_at = now

\* C15: every successful MarkSeen, the first as well as a repeated one,
\* leaves adminSeen true and sets adminReadAt to the time of its own UPDATE;
\* no step lowers adminReadAt or resets adminSeen
C15_MarkSeenRefreshes == []C15_State /\ [][C15_Step]_vars

\* a second MarkSeen of the same complaint has been answered
C15_Witness ==
  /\ SeenDone(1)
  /\ Cardinality(AuditOf("MARK_SEEN", req[1].id)) = 2
  /\ complaints[req[1].id].admin_read_at = clock - 1

C16_State ==
  \A i \in ComplaintIds :
    complaints[i].admin_seen => complaints[i].admin_read_at # NULL

C16_Step ==
  \A i \in (DOMAIN complaints') \ ComplaintIds :
    /\ ~complaints'[i].admin_seen
    /\ complaints'[i].admin_read_at = NULL

\* C16: a complaint with admin_seen = true has admin_read_at set, and a
\* complaint is inserted with admin_seen = false
C16_SeenImpliesReadAt == []C16_State /\ [][C16_Step]_vars

\* one complaint has been marked seen, another has not
C16_Witness ==
  \E i, j \in ComplaintIds :
    /\ complaints[i].admin_seen /\ complaints[i].admin_read_at # NULL
    /\ ~complaints[j].admin_seen

\* the UPDATE of a PUT /:id on complaint i that is not a resolution with
\* details
NonResolvingWrite(p, i) ==
  /\ req[p].pc = "update" /\ req'[p].pc = "audit"
  /\ req[p].op = "UpdateStatus" /\ req[p].id = i
  /\ ~(req[p].status = "resolved" /\ Truthy(req[p].resolutionDetails))

C17_Step ==
  \A p \in Procs, i \in ComplaintIds :
    NonResolvingWrite(p, i)
      => /\ complaints'[i].status = req[p].status
         /\ complaints'[i].resolved_at = complaints[i].resolved_at
         /\ complaints'[i].resolution_details = complaints[i].resolution_details

\* C17: an UpdateStatus to a status other than resolved, or to resolved
\* without resolution details, writes the status and leaves resolved_at and
\* resolution_details of the complaint as they were
C17_ResolutionKept == [][C17_Step]_vars

\* a resolved complaint has been reopened and still carries its resolution
C17_Witness ==
  /\ Done(1) /\ req[1].op = "UpdateStatus" /\ req[1].resp.status = 200
  /\ req[1].status \in {"pending", "in_progress", "rejected"}
  /\ complaints[req[1].id].status = req[1].status
  /\ complaints[req[1].id].resolved_at # NULL
  /\ complaints[req[1].id].resolution_details = "fixed"

\* request p, waiting for a query, is answered in this step
Answered(p) == InFlight(p) /\ req'[p].pc = "done"

ByAdmin(p) ==
  /\ req[p].op = "UpdateStatus"
  /\ req[p].token.kind = "valid"
  /\ users[req[p].token.userId].role \in requireSubAdmin
  /\ users[req[p].token.userId].is_active

C19_State ==
  /\ \A i \in ComplaintIds : complaints[i].status \in StatusValues
  /\ \A p \in Procs :
       (Done(p) /\ ByAdmin(p)) =>
         /\ req[p].status \notin StatusValues
              => /\ req[p].resp.status = 400
                 /\ req[p].resp.error = "status"
         /\ ( /\ req[p].status \in StatusValues
              /\ req[p].id \in ComplaintIds
              /\ InScope(req[p].token.userId, complaints[req[p].id]) )
              => /\ req[p].resp.status = 200
                 /\ complaints[req[p].id].status = req[p].status

C19_Step ==
  /\ \A i \in (DOMAIN complaints') \ ComplaintIds :
       complaints'[i].status = "pending"
  /\ (\E p \in Procs : /\ req[p].pc # "idle" /\ req[p].op = "UpdateStatus"
                         /\ req[p].status \notin StatusValues)
       => UNCHANGED db

\* C19: an UpdateStatus by a sub admin or super admin on a complaint in
\* their scope is answered 200 and writes the requested status whatever the
\* current status is; a status outside the four values is answered 400 by
\* the validator and changes no table; a complaint is inserted as pending
\* and its status is always one of the four values
C19_PermissiveLifecycle == []C19_State /\ [][C19_Step]_vars

\* a resolved complaint has been set back to pending
C19_Witness ==
  /\ Done(1) /\ ByAdmin(1) /\ req[1].resp.status = 200
  /\ req[1].status = "pending"
  /\ \E k \in AuditOf("UPDATE", req[1].id) :
       /\ audit_logs[k].old_values.status = "resolved"
       /\ audit_logs[k].new_values.status = "pending"

\* sequence s is an initial part of sequence t
IsPrefix(s, t) ==
  /\ Len(s) <= Len(t)
  /\ \A k \in DOMAIN s : t[k] = s[k]

C20_Step ==
  /\ ComplaintIds \subseteq DOMAIN complaints'
  /\ IsPrefix(complaint_transfers, complaint_transfers')
  /\ IsPrefix(audit_logs, audit_logs')

\* C20: every step keeps every complaint, and keeps every transfer record
\* and audit entry already written, unchanged and in place; rows are only
\* added
C20_AppendOnly == [][C20_Step]_vars

\* two complaints, a transfer record and the audit entries of three
\* mutations are in the store
C20_Witness ==
  /\ Len(complaints) = 2
  /\ Len(complaint_transfers) = 1
  /\ Len(audit_logs) = 3

\* the requests PUT /:id on complaint i whose UPDATE has been executed
Writers(i) ==
  { p \in Procs : /\ req[p].op = "UpdateStatus" /\ req[p].id = i
                  /\ \/ req[p].pc = "audit"
                     \/ Done(p) /\ req[p].resp.status = 200 }

\* status, resolution details and whether resolved_at is set (resolved_at
\* itself is the time of the write that set it)
Outcome(c) == << c.status, c.resolution_details, c.resolved_at # NULL >>

\* the outcome of UpdateStatus(status, details) applied to outcome o
SerialApply(o, status, details) ==
  IF status = "resolved" /\ details \notin {undefined, ""}
    THEN << status, details, TRUE >>
    ELSE << status, o[2], o[3] >>

\* the outcomes of the requests W applied one after the other, in any order
RECURSIVE SerialOutcomes(_, _)
SerialOutcomes(W, o) ==
  IF W = {} THEN {o}
  ELSE UNION { SerialOutcomes(W \ {p},
                 SerialApply(o, req[p].status, req[p].resolutionDetails)) :
               p \in W }

\* C21: PUT /:id requests on the same complaint that run at the same time
\* all complete (200 once their lookup found the complaint), and the row
\* they leave is the row some serial order of them leaves: the last write
\* wins whole, no mix of two updates appears
C21_LastWriteWins ==
  /\ Outcome(complaints[1])
       \in SerialOutcomes(Writers(1), Outcome(NewComplaint(1, 1, 1)))
  /\ \A p \in Procs :
       (Done(p) /\ req[p].op = "UpdateStatus")
         => req[p].resp.status \in {200, 401, 404}

\* two PUT /:id requests that both read the complaint before either wrote
\* it have been answered 200
C21_Witness ==
  \E p, q \in Procs :
    /\ p # q /\ Writers(1) = {p, q} /\ Done(p) /\ Done(q)
    /\ req[p].status = "resolved" /\ req[q].status = "pending"
    /\ \A k \in AuditOf("UPDATE", 1) :
         audit_logs[k].old_values.status = "pending"
    /\ Cardinality(AuditOf("UPDATE", 1)) = 2
    /\ complaints[1].status = "resolved"

Last(s) == s[Len(s)]

\* request p is a Transfer that has been answered 200
TransferDone(p) ==
  Done(p) /\ req[p].op = "Transfer" /\ req[p].resp.status = 200

TransferAudits == { k \in DOMAIN audit_logs : audit_logs[k].action = "TRANSFER" }

C22_State ==
  \A p \in Procs :
    TransferDone(p) =>
      /\ complaints[req[p].id].domain_id = req[p].toDomainId.v
      /\ Len(complaint_transfers) = Cardinality(TransferAudits)
      /\ Len(complaint_transfers) >= 1
      /\ Last(complaint_transfers) =
           [complaint_id |-> req[p].id,
            from_domain_id |-> req[p].currentDomainId,
            to_domain_id |-> req[p].toDomainId.v,
            transferred_by |-> req[p].token.userId]
      /\ Last(audit_logs).action = "TRANSFER"
      /\ Last(audit_logs).user_id = req[p].token.userId
      /\ Last(audit_logs).resource_id = req[p].id
      /\ Last(audit_logs).old_values.domain_id.v = req[p].currentDomainId
      /\ Last(audit_logs).new_values.domain_id.v = req[p].toDomainId.v

C22_Step ==
  /\ Len(complaint_transfers') \in
       {Len(complaint_transfers), Len(complaint_transfers) + 1}
  /\ \A p \in Procs, i \in ComplaintIds :
       TransferringWrite(p, i)
         => /\ req[p].currentDomainId = complaints[i].domain_id
            /\ complaints'[i].domain_id = req[p].toDomainId.v

\* C22: a Transfer answered 200 has set the complaint's domain_id to
\* toDomainId, appended one transfer record (from the domain the complaint
\* had right before the UPDATE, to the new domain, by the acting user) and
\* one TRANSFER audit entry holding the old and the new domain
C22_TransferRecorded == []C22_State /\ [][C22_Step]_vars

\* a complaint has been transferred from domain 1 to domain 2
C22_Witness ==
  /\ TransferDone(1)
  /\ req[1].currentDomainId = 1 /\ req[1].toDomainId = Num(2)
  /\ complaints[req[1].id].domain_id = 2

\* request p is a POST / of an enabled account with a malformed body
Malformed(p) ==
  /\ req[p].op = "Create" /\ req[p].token.kind = "valid"
  /\ users[req[p].token.userId].is_active
  /\ \/ req[p].title < 5 \/ req[p].title > 255
     \/ req[p].description < 10
     \/ ~isInt(req[p].domainId)
     \/ req[p].priority \notin Priorities \cup {undefined}

\* C23: POST / with a title shorter than 5 or longer than 255, a
\* description shorter than 10, a non-integer domainId or a priority outside
\* low, medium, high is answered 400, and no complaint or audit entry is
\* inserted
C23_MalformedCreateRejected ==
  /\ [](\A p \in Procs : (Done(p) /\ Malformed(p)) => req[p].resp.status = 400)
  /\ [][(\E p \in Procs : req[p].pc # "idle" /\ Malformed(p))
          => UNCHANGED db]_vars

\* complaint c lies outside the scope of account u: it belongs to another
\* student, or to another domain than the sub admin's
OutOfScope(u, c) ==
  CASE users[u].role = "student" -> c.student_id # u
    [] users[u].role = "sub_admin" -> c.domain_id # users[u].domain_id
    [] OTHER -> FALSE

\* request p is a Get, UpdateStatus or MarkSeen with a well-formed id and
\* body, sent by an enabled account whose role the route admits
ScopedRequest(p) ==
  /\ req[p].op \in {"Get", "UpdateStatus", "MarkSeen"}
  /\ req[p].token.kind = "valid"
  /\ users[req[p].token.userId].is_active
  /\ users[req[p].token.userId].role \in requireRole(req[p].op)
  /\ req[p].id >= 1
  /\ req[p].op = "UpdateStatus" => req[p].status \in StatusValues

NotFoundResp == [status |-> 404, error |-> "Complaint not found", rows |-> <<>>]

\* C24: Get, UpdateStatus and MarkSeen answer a complaint outside the
\* actor's scope exactly as they answer an id no complaint has: 404
\* 'Complaint not found', never 403
C24_NotFoundIndistinguishable ==
  \A p \in Procs :
    (Done(p) /\ ScopedRequest(p)) =>
      /\ req[p].id \notin ComplaintIds => req[p].resp = NotFoundResp
      /\ ( /\ req[p].id \in ComplaintIds
           /\ OutOfScope(req[p].token.userId, complaints[req[p].id]) )
           => req[p].resp = NotFoundResp

\* a student has asked for the complaint of another student and got the
\* answer of a missing complaint
C24_Witness ==
  /\ Done(1) /\ ScopedRequest(1) /\ req[1].op = "Get"
  /\ users[req[1].token.userId].role = "student"
  /\ req[1].id \in ComplaintIds
  /\ OutOfScope(req[1].token.userId, complaints[req[1].id])
  /\ users[complaints[req[1].id].student_id].role = "student"
  /\ req[1].resp = NotFoundResp

\* the UPDATE of a PUT /:id or PUT /:id/mark-seen of request p on complaint i
ScopedWrite(p, i) ==
  /\ req[p].op \in {"UpdateStatus", "MarkSeen"} /\ req[p].id = i
  /\ req[p].pc = "update" /\ req'[p].pc = "audit"

\* C25: when a sub admin's UpdateStatus or MarkSeen executes its UPDATE, the
\* complaint is in the sub admin's domain
C25_WriteInOwnDomain ==
  [][\A p \in Procs, i \in ComplaintIds :
       (ScopedWrite(p, i) /\ users[req[p].user].role = "sub_admin")
         => complaints[i].domain_id = users[req[p].user].domain_id]_vars

\* the UPDATE of the PUT /:id of request p on complaint i
StatusWrite(p, i) ==
  /\ req[p].op = "UpdateStatus" /\ req[p].id = i
  /\ req[p].pc = "update" /\ req'[p].pc = "audit"

\* the UPDATE audit entry request p appends in this step
AuditWritten(p) ==
  /\ req[p].op = "UpdateStatus" /\ req[p].pc = "audit" /\ req'[p].pc = "done"
  /\ Len(audit_logs') = Len(audit_logs) + 1

\* C26: the old status an UpdateStatus records in its audit entry is the
\* status the complaint had right before its UPDATE, and the new status is
\* the status right after it
C26_AuditStatusExact ==
  [][\A p \in Procs :
       /\ \A i \in ComplaintIds :
            StatusWrite(p, i) => /\ req[p].oldStatus = complaints[i].status
                                 /\ req[p].status = complaints'[i].status
       /\ AuditWritten(p)
            => /\ Last(audit_logs').old_values.status = req[p].oldStatus
               /\ Last(audit_logs').new_values.status = req[p].status]_vars

\* the transfer records of complaint i, oldest first
TransfersOf(i) ==
  SelectSeq(complaint_transfers, LAMBDA t : t.complaint_id = i)

\* the domain complaint i was created in, from its CREATE audit entry
CreationDomain(i) ==
  LET a == CHOOSE k \in AuditOf("CREATE", i) : TRUE
  IN audit_logs[a].new_values.domain_id.v

\* no transfer stands between its UPDATE and the insert of its record
TransfersSettled == \A p \in Procs : req[p].pc # "insertTransfer"

\* C27: the transfer records of a complaint form a chain: the first starts at
\* the domain of creation, each next one starts where the previous one ended,
\* no record has equal ends, and the last one ends at the current domain
C27_TransferChain ==
  TransfersSettled =>
    \A i \in ComplaintIds :
      LET ts == TransfersOf(i)
      IN (ts # <<>> /\ AuditOf("CREATE", i) # {})
           => /\ ts[1].from_domain_id = CreationDomain(i)
              /\ \A k \in 1..(Len(ts) - 1) :
                   ts[k + 1].from_domain_id = ts[k].to_domain_id
              /\ \A k \in DOMAIN ts : ts[k].from_domain_id # ts[k].to_domain_id
              /\ Last(ts).to_domain_id = complaints[i].domain_id

\* C28: at every moment some super_admin account is active
C28_ActiveSuperAdminRemains ==
  \E u \in DOMAIN users :
    users[u].role = "super_admin" /\ users[u].is_active

\* request p is an authorised Transfer of an existing complaint to a domain
\* id that is an integer and no row of domains
TransferToMissingDomain(p) ==
  /\ req[p].op = "Transfer"
  /\ req[p].currentDomainId # NULL
  /\ isInt(req[p].toDomainId)
  /\ (OutOfRange(req[p].toDomainId) \/ PgInt(req[p].toDomainId) \notin Domains)

C29_State ==
  /\ \A i \in ComplaintIds : complaints[i].domain_id \in Domains
  /\ \A p \in Procs :
       (Done(p) /\ TransferToMissingDomain(p)) => req[p].resp.status = 400

C29_Step ==
  \A p \in Procs :
    (TransferToMissingDomain(p) /\ InFlight(p))
      => UNCHANGED <<complaints, complaint_transfers, audit_logs>>

\* C29: every complaint's domain_id is a row of domains, and a Transfer to
\* a domain id that is no row of domains answers 400 and changes neither
\* the complaint, nor the transfer records, nor the audit log
C29_MissingDomainRejected == []C29_State /\ [][C29_Step]_vars

\* the complaints user u may see: a student the own ones, a sub_admin those
\* of the own domain, a super_admin all
VisibleTo(u) == { i \in ComplaintIds : ~OutOfScope(u, complaints[i]) }

VisibleWith(u, s) == { i \in VisibleTo(u) : complaints[i].status = s }

\* request p is a GET /users/stats that has been answered
StatsDone(p) == Done(p) /\ req[p].op = "Stats" /\ req[p].user # NULL

\* C30: GET /users/stats answers 200 with the numbers of the complaints
\* visible to the actor, in all and per status, and total is the sum of
\* pending, in_progress, resolved and rejected
C30_StatsExact ==
  \A p \in Procs :
    StatsDone(p) =>
      /\ req[p].resp.status = 200
      /\ LET row == req[p].resp.rows[1]
             u == req[p].user
         IN /\ row.total.v = Cardinality(VisibleTo(u))
            /\ row.pending.v = Cardinality(VisibleWith(u, "pending"))
            /\ row.inProgress.v = Cardinality(VisibleWith(u, "in_progress"))
            /\ row.resolved.v = Cardinality(VisibleWith(u, "resolved"))
            /\ row.rejected.v = Cardinality(VisibleWith(u, "rejected"))
            /\ row.total.v = row.pending.v + row.inProgress.v
                               + row.resolved.v + row.rejected.v

\* the sub_admin of domain 1 is told one complaint, a resolved one, while a
\* second complaint exists in another domain
C30_Witness ==
  \E p \in Procs :
    /\ StatsDone(p) /\ ActorIs(p, "sub_admin")
    /\ Len(complaints) = 2
    /\ req[p].resp.rows[1].total.v = 1
    /\ req[p].resp.rows[1].resolved.v = 1
====
